---- MODULE Spec2Model ----
(***************************************************************************)
(* Model of telegram_video_transfer.py: the bootstrap (main), the /start   *)
(* handler and the /transfer handler.  Every handler invocation is one     *)
(* asyncio task; the states of a task are its suspension points (the       *)
(* awaited reply sends and the awaited send_video call).  The platform     *)
(* answers every awaited call either normally or by raising.               *)
(*                                                                         *)
(* A text is a sequence of segments: the literal pieces of the source      *)
(* string and the values interpolated between them.                        *)
(***************************************************************************)
EXTENDS Naturals, Sequences, FiniteSets, Bags

VARIABLES BOT_TOKEN, TARGET_CHANNEL_ID, main_pc, application, handlers, log, tasks

vars == <<BOT_TOKEN, TARGET_CHANNEL_ID, main_pc, application, handlers, log, tasks>>

(* ---------------- bounds and input domains ---------------- *)

\* number of handler invocations dispatched in one run
MaxInv == 2

\* os.environ.get returns None for an absent variable
NONE == "<None>"

TokenValues == {NONE, "", "123456:ABC"}
ChannelValues == {NONE, "", "-1001234567890"}

\* context.args of the dispatched /transfer commands (whitespace-split, so no
\* argument is empty); "not-a-url" is a malformed URL
ArgLists == {<<>>, <<"https://h/v.mp4">>, <<"https://h/v.mp4", "extra">>, <<"not-a-url">>}

\* update.effective_user.first_name of the dispatched /start commands
FirstNames == {"Ann", "Bob"}

\* the first name carried by a /transfer update, which the handler never reads
SomeName == "Ann"

\* messages of the exceptions the platform calls raise
ErrorMessages == {"Timed out", "Forbidden: bot is not a member of the channel chat"}

(* ---------------- outcomes of awaited calls ---------------- *)

Ok == [ok |-> TRUE, message |-> ""]
Raised(m) == [ok |-> FALSE, message |-> m]
Outcomes == {Ok} \cup {Raised(m) : m \in ErrorMessages}

\* f"{e}" of an exception
Str(e) == e.message

(* ---------------- texts ---------------- *)

Contains(text, s) == \E k \in 1..Len(text) : text[k] = s

MISSING_URL_TEXT == <<"Please provide a URL after the ", "/transfer", " command.">>

ACK_TEXT == <<"Got it! Starting the transfer process. This might take a moment depending on the video size...">>

SUCCESS_TEXT == <<"Success! The video has been transferred to the channel.">>

CAPTION == <<"Video transferred via the URL Bot!">>

\* a welcome text that leaves the requester's name out
WelcomeMessage_NoName(first_name) ==
    << "Hi!",
       "I am the Telegram Video Transfer bot.",
       "To use me, send a message in this format:",
       "/transfer", " <direct_video_url>" >>

WelcomeMessage(first_name) ==
    << "Hi ", first_name, "!",
       "I am the Telegram Video Transfer bot.",
       "I can transfer videos to a channel directly from a web link.",
       "To use me, send a message in this format:",
       "/transfer", " <direct_video_url>",
       "For example:",
       "/transfer", " https://example.com/videos/my_awesome_video.mp4" >>

ErrorMessage(e) ==
    << "An error occurred.",
       "Please check a few things:",
       "1. Is the link a direct link to a video file (e.g., .mp4, .mov)? Links to pages like YouTube will not work.",
       "2. Is the video file accessible and not too large? (Telegram has size limits).",
       "3. Is the bot an admin in the channel ", TARGET_CHANNEL_ID, "?",
       "Error details: ", Str(e) >>

(* ---------------- calls to the platform ---------------- *)

NoVideo == "<no video>"
REQUESTER == "<chat of update.message>"

ReplyText(text) ==
    [api |-> "reply_text", chat_id |-> REQUESTER, text |-> text,
     video |-> NoVideo, supports_streaming |-> FALSE]

ReplyHtml(text) ==
    [api |-> "reply_html", chat_id |-> REQUESTER, text |-> text,
     video |-> NoVideo, supports_streaming |-> FALSE]

SendVideo(chat_id, video) ==
    [api |-> "send_video", chat_id |-> chat_id, text |-> CAPTION,
     video |-> video, supports_streaming |-> TRUE]

(* ---------------- log records ---------------- *)

LogRec(level, msg) == [level |-> level, msg |-> msg]
Logged(recs) == log (+) recs
One(rec) == SetToBag({rec})

FATAL_LOG == LogRec("ERROR", <<"FATAL: BOT_TOKEN or TARGET_CHANNEL_ID environment variables not set.">>)
STARTING_LOG == LogRec("INFO", <<"Bot is starting...">>)
ReceivedLog(url) == LogRec("INFO", <<"Received transfer request for URL: ", url>>)
TransferredLog(url) ==
    LogRec("INFO", <<"Successfully transferred video from ", url, " to ", TARGET_CHANNEL_ID>>)
FailedLog(url, e) ==
    LogRec("ERROR", <<"Failed to transfer video from ", url, ". Error: ", Str(e)>>)

(* ---------------- bootstrap: main() ---------------- *)

\* truth value of an Optional[str]
Truthy(v) == v # NONE /\ v # ""

\* a pre-flight check that forgets the channel
ConfigMissing_OnlyToken(tok, chan) == ~Truthy(tok)

ConfigMissing(tok, chan) == ~Truthy(tok) \/ ~Truthy(chan)

NoApplication == [token |-> NONE]

Init ==
    /\ BOT_TOKEN \in TokenValues
    /\ TARGET_CHANNEL_ID \in ChannelValues
    /\ main_pc = "check"
    /\ application = NoApplication
    /\ handlers = <<>>
    /\ log = EmptyBag
    /\ tasks = <<>>

MainCheck ==
    /\ main_pc = "check"
    /\ IF ConfigMissing(BOT_TOKEN, TARGET_CHANNEL_ID)
       THEN /\ log' = Logged(One(FATAL_LOG))
            /\ main_pc' = "returned"
       ELSE /\ log' = log
            /\ main_pc' = "build"
    /\ UNCHANGED <<BOT_TOKEN, TARGET_CHANNEL_ID, application, handlers, tasks>>

MainBuild ==
    /\ main_pc = "build"
    /\ application' = [token |-> BOT_TOKEN]
    /\ main_pc' = "add_start"
    /\ UNCHANGED <<BOT_TOKEN, TARGET_CHANNEL_ID, handlers, log, tasks>>

MainAddStartHandler ==
    /\ main_pc = "add_start"
    /\ handlers' = Append(handlers, [command |-> "start", callback |-> "start_command"])
    /\ main_pc' = "add_transfer"
    /\ UNCHANGED <<BOT_TOKEN, TARGET_CHANNEL_ID, application, log, tasks>>

MainAddTransferHandler ==
    /\ main_pc = "add_transfer"
    /\ handlers' = Append(handlers, [command |-> "transfer", callback |-> "transfer_video_command"])
    /\ main_pc' = "run_polling"
    /\ UNCHANGED <<BOT_TOKEN, TARGET_CHANNEL_ID, application, log, tasks>>

MainRunPolling ==
    /\ main_pc = "run_polling"
    /\ log' = Logged(One(STARTING_LOG))
    /\ main_pc' = "polling"
    /\ UNCHANGED <<BOT_TOKEN, TARGET_CHANNEL_ID, application, handlers, tasks>>

(* ---------------- dispatch of an inbound command ---------------- *)

NewTask(callback, args, first_name) ==
    [callback |-> callback, args |-> args, first_name |-> first_name,
     pc |-> "entry", video_url |-> NoVideo, calls |-> <<>>, results |-> <<>>,
     exc |-> Ok]

\* the serving loop hands an inbound command to the callback registered for it
Dispatch(command, args, first_name) ==
    /\ main_pc = "polling"
    /\ Len(tasks) < MaxInv
    /\ \E k \in 1..Len(handlers) :
          /\ handlers[k].command = command
          /\ \A j \in 1..(k - 1) : handlers[j].command # command
          /\ tasks' = Append(tasks, NewTask(handlers[k].callback, args, first_name))
    /\ UNCHANGED <<BOT_TOKEN, TARGET_CHANNEL_ID, main_pc, application, handlers, log>>

(* ---------------- steps of a task ---------------- *)

Await(t, call, pc) == [t EXCEPT !.calls = Append(@, call), !.pc = pc]
\* the awaited call completed with outcome r and the coroutine runs on
Resume(t, r) == [t EXCEPT !.results = Append(@, r)]
Return(t) == [t EXCEPT !.pc = "done"]
\* the exception e leaves the handler
Raise(t, e) == [t EXCEPT !.pc = "raised", !.exc = e]

(* ---------------- start_command ---------------- *)

StartEntry(i) ==
    /\ tasks[i].callback = "start_command"
    /\ tasks[i].pc = "entry"
    /\ tasks' = [tasks EXCEPT ![i] = Await(@, ReplyHtml(WelcomeMessage(@.first_name)), "await_welcome")]
    /\ UNCHANGED <<BOT_TOKEN, TARGET_CHANNEL_ID, main_pc, application, handlers, log>>

StartWelcomeReturns(i, r) ==
    /\ tasks[i].callback = "start_command"
    /\ tasks[i].pc = "await_welcome"
    /\ tasks' = [tasks EXCEPT ![i] = IF r.ok THEN Return(Resume(@, r)) ELSE Raise(Resume(@, r), r)]
    /\ UNCHANGED <<BOT_TOKEN, TARGET_CHANNEL_ID, main_pc, application, handlers, log>>

(* ---------------- transfer_video_command ---------------- *)

\* a handler without the argument check
NoArgs_Never(args) == FALSE

\* not context.args
NoArgs(args) == args = <<>>

\* a handler that reads the last argument
VideoUrl_Last(args) == args[Len(args)]

\* context.args[0]
VideoUrl(args) == args[1]

IndexError == Raised("list index out of range")

\* the except block: format the diagnostic and await its reply
Except(t, e) == Await(t, ReplyHtml(ErrorMessage(e)), "await_diag")

TransferEntry(i) ==
    /\ tasks[i].callback = "transfer_video_command"
    /\ tasks[i].pc = "entry"
    /\ IF NoArgs(tasks[i].args)
       THEN /\ tasks' = [tasks EXCEPT ![i] = Await(@, ReplyText(MISSING_URL_TEXT), "await_missing")]
            /\ log' = log
       ELSE IF Len(tasks[i].args) = 0
       THEN /\ tasks' = [tasks EXCEPT ![i] = Raise(@, IndexError)]
            /\ log' = log
       ELSE /\ tasks' = [tasks EXCEPT ![i] =
                            Await([tasks[i] EXCEPT !.video_url = VideoUrl(tasks[i].args)],
                                  ReplyText(ACK_TEXT), "await_ack")]
            /\ log' = Logged(One(ReceivedLog(VideoUrl(tasks[i].args))))
    /\ UNCHANGED <<BOT_TOKEN, TARGET_CHANNEL_ID, main_pc, application, handlers>>

OnMissingResult(t, r) == IF r.ok THEN Return(Resume(t, r)) ELSE Raise(Resume(t, r), r)

TransferMissingReturns(i, r) ==
    /\ tasks[i].callback = "transfer_video_command"
    /\ tasks[i].pc = "await_missing"
    /\ tasks' = [tasks EXCEPT ![i] = OnMissingResult(@, r)]
    /\ UNCHANGED <<BOT_TOKEN, TARGET_CHANNEL_ID, main_pc, application, handlers, log>>

UploadCall(t) == SendVideo(TARGET_CHANNEL_ID, t.video_url)

\* a handler that skips the upload of a URL some other invocation already uploaded
OnAckResult_Dedup(t, r) ==
    IF ~r.ok THEN Raise(Resume(t, r), r)
    ELSE IF \E j \in 1..Len(tasks) : \E k \in 1..Len(tasks[j].calls) :
               tasks[j].calls[k].api = "send_video" /\ tasks[j].calls[k].video = t.video_url
         THEN Await(Resume(t, r), ReplyText(SUCCESS_TEXT), "await_success")
         ELSE Await(Resume(t, r), UploadCall(t), "await_video")

\* a handler that starts the upload whatever became of the acknowledgement
OnAckResult_NotAwaited(t, r) == Await(Resume(t, r), UploadCall(t), "await_video")

\* the acknowledgement is awaited outside the try block
OnAckResult(t, r) ==
    IF r.ok THEN Await(Resume(t, r), UploadCall(t), "await_video")
            ELSE Raise(Resume(t, r), r)

TransferAckReturns(i, r) ==
    /\ tasks[i].callback = "transfer_video_command"
    /\ tasks[i].pc = "await_ack"
    /\ tasks' = [tasks EXCEPT ![i] = OnAckResult(@, r)]
    /\ UNCHANGED <<BOT_TOKEN, TARGET_CHANNEL_ID, main_pc, application, handlers, log>>

\* a handler whose upload call is not inside a try block
OnVideoResult_NoTry(t, r) ==
    IF r.ok THEN Await(Resume(t, r), ReplyText(SUCCESS_TEXT), "await_success")
            ELSE Raise(Resume(t, r), r)

\* a handler that retries a failed upload
OnVideoResult_Retry(t, r) ==
    IF r.ok THEN Await(Resume(t, r), ReplyText(SUCCESS_TEXT), "await_success")
            ELSE Await(Resume(t, r), UploadCall(t), "await_video")

\* send_video is awaited inside the try block
OnVideoResult(t, r) ==
    IF r.ok THEN Await(Resume(t, r), ReplyText(SUCCESS_TEXT), "await_success")
            ELSE Except(Resume(t, r), r)

TransferVideoReturns(i, r) ==
    /\ tasks[i].callback = "transfer_video_command"
    /\ tasks[i].pc = "await_video"
    /\ tasks' = [tasks EXCEPT ![i] = OnVideoResult(@, r)]
    /\ log' = IF r.ok THEN Logged(One(TransferredLog(tasks[i].video_url)))
                      ELSE Logged(One(FailedLog(tasks[i].video_url, r)))
    /\ UNCHANGED <<BOT_TOKEN, TARGET_CHANNEL_ID, main_pc, application, handlers>>

\* the success reply is awaited inside the same try block
OnSuccessResult(t, r) ==
    IF r.ok THEN Return(Resume(t, r))
            ELSE Except(Resume(t, r), r)

TransferSuccessReturns(i, r) ==
    /\ tasks[i].callback = "transfer_video_command"
    /\ tasks[i].pc = "await_success"
    /\ tasks' = [tasks EXCEPT ![i] = OnSuccessResult(@, r)]
    /\ log' = IF r.ok THEN log
                      ELSE Logged(One(FailedLog(tasks[i].video_url, r)))
    /\ UNCHANGED <<BOT_TOKEN, TARGET_CHANNEL_ID, main_pc, application, handlers>>

\* the diagnostic reply is awaited inside the except block
OnDiagResult(t, r) == IF r.ok THEN Return(Resume(t, r)) ELSE Raise(Resume(t, r), r)

TransferDiagReturns(i, r) ==
    /\ tasks[i].callback = "transfer_video_command"
    /\ tasks[i].pc = "await_diag"
    /\ tasks' = [tasks EXCEPT ![i] = OnDiagResult(@, r)]
    /\ UNCHANGED <<BOT_TOKEN, TARGET_CHANNEL_ID, main_pc, application, handlers, log>>

(* ---------------- the program ---------------- *)

Next ==
    \/ MainCheck
    \/ MainBuild
    \/ MainAddStartHandler
    \/ MainAddTransferHandler
    \/ MainRunPolling
    \/ \E n \in FirstNames : Dispatch("start", <<>>, n)
    \/ \E a \in ArgLists : Dispatch("transfer", a, SomeName)
    \/ \E i \in 1..Len(tasks) : StartEntry(i)
    \/ \E i \in 1..Len(tasks), r \in Outcomes : StartWelcomeReturns(i, r)
    \/ \E i \in 1..Len(tasks) : TransferEntry(i)
    \/ \E i \in 1..Len(tasks), r \in Outcomes : TransferMissingReturns(i, r)
    \/ \E i \in 1..Len(tasks), r \in Outcomes : TransferAckReturns(i, r)
    \/ \E i \in 1..Len(tasks), r \in Outcomes : TransferVideoReturns(i, r)
    \/ \E i \in 1..Len(tasks), r \in Outcomes : TransferSuccessReturns(i, r)
    \/ \E i \in 1..Len(tasks), r \in Outcomes : TransferDiagReturns(i, r)

Spec == Init /\ [][Next]_vars

(* ---------------- vocabulary of the properties ---------------- *)

IsStart(t) == t.callback = "start_command"
IsTransfer(t) == t.callback = "transfer_video_command"
Terminated(t) == t.pc \in {"done", "raised"}

IsReply(c) == c.api \in {"reply_text", "reply_html"}
IsUpload(c) == c.api = "send_video"
Replies(t) == SelectSeq(t.calls, IsReply)
Uploads(t) == SelectSeq(t.calls, IsUpload)

IsMissingUrl(c) == IsReply(c) /\ c.text = MISSING_URL_TEXT
IsAck(c) == IsReply(c) /\ c.text = ACK_TEXT
IsSuccess(c) == IsReply(c) /\ c.text = SUCCESS_TEXT
IsDiagnostic(c) == IsReply(c) /\ Contains(c.text, "An error occurred.")

\* the k-th awaited call of t has completed
Completed(t, k) == k \in 1..Len(t.results)

UploadSucceeded(t) == \E k \in 1..Len(t.results) : IsUpload(t.calls[k]) /\ t.results[k].ok
UploadRaised(t) == \E k \in 1..Len(t.results) : IsUpload(t.calls[k]) /\ ~t.results[k].ok
UploadError(t) == t.results[CHOOSE k \in 1..Len(t.results) : IsUpload(t.calls[k]) /\ ~t.results[k].ok]

Task(i) == tasks[i]
TaskIds == 1..Len(tasks)

(* ---------------- C1 ---------------- *)

\* C1: every /transfer invocation with at least one argument whose upload call
\* succeeded has, once terminated, sent exactly two replies, the acknowledgement
\* and then the success message, and has made exactly one upload call, with the
\* given URL and TARGET_CHANNEL_ID.
C1_SuccessTwoReplies ==
    \A i \in TaskIds :
        (IsTransfer(Task(i)) /\ Task(i).args # <<>> /\ UploadSucceeded(Task(i)) /\ Terminated(Task(i)))
        => /\ Len(Replies(Task(i))) = 2
           /\ IsAck(Replies(Task(i))[1])
           /\ IsSuccess(Replies(Task(i))[2])
           /\ Len(Uploads(Task(i))) = 1
           /\ Uploads(Task(i))[1].video = Task(i).args[1]
           /\ Uploads(Task(i))[1].chat_id = TARGET_CHANNEL_ID

(* ---------------- C2 ---------------- *)

\* C2: every /transfer invocation with at least one argument whose upload call
\* raised has sent exactly two replies, the acknowledgement and then the failure
\* diagnostic carrying TARGET_CHANNEL_ID and the message of the raised error;
\* it sends no success reply and makes the upload call exactly once.
C2_FailureTwoReplies ==
    \A i \in TaskIds :
        (IsTransfer(Task(i)) /\ Task(i).args # <<>> /\ UploadRaised(Task(i)))
        => /\ Len(Replies(Task(i))) = 2
           /\ IsAck(Replies(Task(i))[1])
           /\ IsDiagnostic(Replies(Task(i))[2])
           /\ Contains(Replies(Task(i))[2].text, TARGET_CHANNEL_ID)
           /\ Contains(Replies(Task(i))[2].text, Str(UploadError(Task(i))))
           /\ \A k \in 1..Len(Task(i).calls) : ~IsSuccess(Task(i).calls[k])
           /\ Len(Uploads(Task(i))) = 1

C2_Witness ==
    \E i \in TaskIds :
        /\ IsTransfer(Task(i)) /\ Task(i).args # <<>>
        /\ UploadRaised(Task(i))
        /\ Task(i).pc = "done"
        /\ Str(UploadError(Task(i))) = "Timed out"

(* ---------------- C3 ---------------- *)

\* C3: a /transfer invocation with zero arguments makes exactly one call, the
\* reply with the fixed missing-URL message; it terminates as soon as that reply
\* returns, and it never makes the upload call nor any other reply.
C3_MissingUrlOnly ==
    \A i \in TaskIds :
        (IsTransfer(Task(i)) /\ Task(i).args = <<>> /\ Task(i).pc # "entry")
        => /\ Len(Task(i).calls) = 1
           /\ IsMissingUrl(Task(i).calls[1])
           /\ Uploads(Task(i)) = <<>>
           /\ Completed(Task(i), 1) => Terminated(Task(i))
           /\ ~Completed(Task(i), 1) => Task(i).pc = "await_missing"

C3_Witness ==
    \E i \in TaskIds :
        /\ IsTransfer(Task(i)) /\ Task(i).args = <<>>
        /\ Task(i).pc = "done"
        /\ Len(Replies(Task(i))) = 1

(* ---------------- C4 ---------------- *)

Absent(v) == v = NONE \/ v = ""

\* C4: with BOT_TOKEN or TARGET_CHANNEL_ID absent or empty, main() logs the fatal
\* diagnostic and returns: no application is built, no handler is registered,
\* the serving loop is never entered and no handler ever runs.  The serving
\* loop is entered only with both values non-empty.
C4_FailClosed ==
    /\ (Absent(BOT_TOKEN) \/ Absent(TARGET_CHANNEL_ID))
       => /\ main_pc \in {"check", "returned"}
          /\ main_pc = "returned" => BagIn(FATAL_LOG, log)
          /\ application = NoApplication
          /\ handlers = <<>>
          /\ tasks = <<>>
    /\ main_pc = "polling" => (~Absent(BOT_TOKEN) /\ ~Absent(TARGET_CHANNEL_ID))

C4_Witness ==
    /\ ~Absent(BOT_TOKEN)
    /\ TARGET_CHANNEL_ID = ""
    /\ main_pc = "returned"
    /\ BagIn(FATAL_LOG, log)

(* ---------------- C5 ---------------- *)

\* C5: no exception propagates out of transfer_video_command, whatever the
\* outcome of the calls it makes.
C5_NothingPropagates ==
    \A i \in TaskIds : IsTransfer(Task(i)) => Task(i).pc # "raised"

\* C5, amended: an exception raised by the upload call or by the success reply
\* never propagates out of transfer_video_command: the handler goes on to send
\* the failure diagnostic.  The handler ends with an exception exactly when its
\* last call, the missing-URL reply, the acknowledgement or the failure
\* diagnostic, raised, and the exception that leaves it is that one.
C5_UploadFailureRecovered ==
    \A i \in TaskIds :
        IsTransfer(Task(i))
        => /\ \A k \in 1..Len(Task(i).results) :
                 (~Task(i).results[k].ok /\ (IsUpload(Task(i).calls[k]) \/ IsSuccess(Task(i).calls[k])))
                 => (Len(Task(i).calls) > k /\ IsDiagnostic(Task(i).calls[k + 1]))
           /\ Task(i).pc = "raised"
              <=> /\ Task(i).results # <<>>
                  /\ Len(Task(i).results) = Len(Task(i).calls)
                  /\ ~Task(i).results[Len(Task(i).results)].ok
                  /\ \/ IsMissingUrl(Task(i).calls[Len(Task(i).calls)])
                     \/ IsAck(Task(i).calls[Len(Task(i).calls)])
                     \/ IsDiagnostic(Task(i).calls[Len(Task(i).calls)])
           /\ Task(i).pc = "raised" => Task(i).exc = Task(i).results[Len(Task(i).results)]

C5_Witness ==
    \E i \in TaskIds :
        /\ IsTransfer(Task(i))
        /\ UploadRaised(Task(i))
        /\ Task(i).pc = "done"
        /\ IsDiagnostic(Task(i).calls[Len(Task(i).calls)])
        /\ Task(i).exc = Ok

(* ---------------- C6 ---------------- *)

\* C6: under every interleaving, each /transfer invocation with arguments whose
\* acknowledgement returned makes its own upload call, with its own URL, whether
\* or not another invocation uploaded the same URL; the reply that follows its
\* upload is the one its own upload outcome calls for; and the calls it makes
\* are a function of its own arguments and of the outcomes of its own calls.
C6_Independent ==
    \A i \in TaskIds :
        (IsTransfer(Task(i)) /\ Task(i).args # <<>>)
        => /\ \A k \in 1..Len(Task(i).calls) :
                 IsUpload(Task(i).calls[k]) => Task(i).calls[k].video = Task(i).args[1]
           /\ (Completed(Task(i), 1) /\ Task(i).results[1].ok) => Len(Uploads(Task(i))) = 1
           /\ \A k \in 1..Len(Task(i).results) :
                 IsUpload(Task(i).calls[k])
                 => /\ Len(Task(i).calls) > k
                    /\ IF Task(i).results[k].ok
                       THEN IsSuccess(Task(i).calls[k + 1])
                       ELSE /\ IsDiagnostic(Task(i).calls[k + 1])
                            /\ Contains(Task(i).calls[k + 1].text, Str(Task(i).results[k]))
           /\ \A j \in TaskIds :
                 (/\ IsTransfer(Task(j)) /\ Task(j).args = Task(i).args
                  /\ Task(i).pc # "entry" /\ Task(j).pc # "entry"
                  /\ Task(j).results = Task(i).results)
                 => Task(j).calls = Task(i).calls

C6_Witness ==
    \E i, j \in TaskIds :
        /\ i # j
        /\ IsTransfer(Task(i)) /\ IsTransfer(Task(j))
        /\ Task(i).args # <<>> /\ Task(j).args # <<>>
        /\ Task(i).args[1] = Task(j).args[1]
        /\ Task(i).pc = "done" /\ Task(j).pc = "done"
        /\ UploadSucceeded(Task(i)) /\ UploadRaised(Task(j))
        /\ Len(Uploads(Task(i))) = 1 /\ Len(Uploads(Task(j))) = 1
        /\ IsSuccess(Replies(Task(i))[2]) /\ IsDiagnostic(Replies(Task(j))[2])

(* ---------------- C7 ---------------- *)

\* C7: every /start invocation sends exactly one reply, containing "/transfer"
\* and the requester's first name, makes no upload call and no other call, and
\* never fails.
C7_StartOneReplyNoFailure ==
    \A i \in TaskIds :
        IsStart(Task(i))
        => /\ Task(i).pc # "entry"
              => /\ Len(Task(i).calls) = 1
                 /\ IsReply(Task(i).calls[1])
                 /\ Contains(Task(i).calls[1].text, "/transfer")
                 /\ Contains(Task(i).calls[1].text, Task(i).first_name)
           /\ Uploads(Task(i)) = <<>>
           /\ Task(i).pc # "raised"

\* C7, amended: every /start invocation sends exactly one reply, containing
\* "/transfer" and the requester's first name, and makes no upload call and no
\* other call; its one failure mode is that reply raising, and then the
\* exception propagates out of start_command.
C7_StartOneReply ==
    \A i \in TaskIds :
        IsStart(Task(i))
        => /\ Task(i).pc # "entry"
              => /\ Len(Task(i).calls) = 1
                 /\ IsReply(Task(i).calls[1])
                 /\ Contains(Task(i).calls[1].text, "/transfer")
                 /\ Contains(Task(i).calls[1].text, Task(i).first_name)
           /\ Uploads(Task(i)) = <<>>
           /\ Task(i).pc = "raised"
              <=> (Completed(Task(i), 1) /\ ~Task(i).results[1].ok)
           /\ Task(i).pc = "raised" => Task(i).exc = Task(i).results[1]
           /\ Task(i).pc = "done"
              <=> (Completed(Task(i), 1) /\ Task(i).results[1].ok)

C7_Witness ==
    \E i \in TaskIds :
        /\ IsStart(Task(i))
        /\ Task(i).first_name = "Bob"
        /\ Task(i).pc = "done"
        /\ Len(Replies(Task(i))) = 1
        /\ Contains(Replies(Task(i))[1].text, "Bob")

(* ---------------- C8 ---------------- *)

\* C8: the URL of every upload call is the first argument, whatever it looks
\* like, and two invocations whose first arguments agree and whose calls had the
\* same outcomes made the same calls: the arguments after the first change
\* nothing.
C8_FirstArgumentOnly ==
    /\ \A i \in TaskIds :
          (IsTransfer(Task(i)) /\ Task(i).args # <<>>)
          => /\ \A k \in 1..Len(Task(i).calls) :
                   IsUpload(Task(i).calls[k]) => Task(i).calls[k].video = Task(i).args[1]
             /\ (Completed(Task(i), 1) /\ Task(i).results[1].ok)
                => (Len(Task(i).calls) >= 2 /\ IsUpload(Task(i).calls[2]))
    /\ \A i, j \in TaskIds :
          (/\ IsTransfer(Task(i)) /\ IsTransfer(Task(j))
           /\ Task(i).args # <<>> /\ Task(j).args # <<>>
           /\ Task(i).args[1] = Task(j).args[1]
           /\ Task(i).pc # "entry" /\ Task(j).pc # "entry"
           /\ Task(i).results = Task(j).results)
          => (Task(i).calls = Task(j).calls /\ Task(i).pc = Task(j).pc)

C8_Witness ==
    \E i, j \in TaskIds :
        /\ IsTransfer(Task(i)) /\ IsTransfer(Task(j))
        /\ Len(Task(i).args) = 1 /\ Len(Task(j).args) = 2
        /\ Task(i).args[1] = Task(j).args[1]
        /\ Task(i).pc = "done" /\ Task(j).pc = "done"
        /\ Task(i).results = Task(j).results
        /\ Len(Uploads(Task(j))) = 1
        /\ Uploads(Task(j))[1].video = Task(j).args[1]

(* ---------------- C9 ---------------- *)

\* C9: an upload call is made only right after the acknowledgement reply has
\* returned normally, and an invocation whose acknowledgement raised never makes
\* the upload call.
C9_UploadAfterAck ==
    \A i \in TaskIds :
        /\ \A k \in 1..Len(Task(i).calls) :
              IsUpload(Task(i).calls[k])
              => /\ k >= 2
                 /\ IsAck(Task(i).calls[k - 1])
                 /\ Task(i).results[k - 1].ok
        /\ \A k \in 1..Len(Task(i).results) :
              (IsAck(Task(i).calls[k]) /\ ~Task(i).results[k].ok)
              => (Uploads(Task(i)) = <<>> /\ Task(i).pc = "raised")

C9_Witness ==
    \E i \in TaskIds :
        /\ IsTransfer(Task(i))
        /\ Len(Task(i).calls) = 1 /\ IsAck(Task(i).calls[1])
        /\ Completed(Task(i), 1) /\ ~Task(i).results[1].ok
        /\ Terminated(Task(i))

(* ---------------- C10 ---------------- *)

\* C10: no invocation both completes the upload call successfully and sends
\* the failure diagnostic.
C10_DiagnosticOnlyAfterUploadRaised ==
    \A i \in TaskIds :
        ~(UploadSucceeded(Task(i)) /\ \E k \in 1..Len(Task(i).calls) : IsDiagnostic(Task(i).calls[k]))

====
